---- MODULE Spec2Model ----
(***************************************************************************)
(* serve.py: a no-cache local development file server.                     *)
(*                                                                         *)
(* NoCacheHandler subclasses http.server.SimpleHTTPRequestHandler and      *)
(* overrides end_headers; the main block builds an HTTPServer on           *)
(* 127.0.0.1:3000, prints one line and calls serve_forever.  The inherited *)
(* methods (parse_request, send_error, send_response, send_header,         *)
(* send_head, list_directory, copyfile, ...) are the ones of CPython       *)
(* 3.11's http.server and socketserver, which the class at serve.py:4 and  *)
(* the calls at serve.py:12-14 bring in; they are modelled step by step    *)
(* under their own names.                                                  *)
(*                                                                         *)
(* One request is handled in one step (the server is single threaded):     *)
(* a change of the files is ordered before or after a handler's run.       *)
(***************************************************************************)
EXTENDS Integers, Sequences, FiniteSets, TLC

(***************************************************************************)
(* Bounds of the model.                                                    *)
(***************************************************************************)
\* longest file content, in bytes
MaxLen == 1
\* largest modification time / If-Modified-Since time (seconds)
MaxTime == 1

(***************************************************************************)
(* Program constants.                                                      *)
(***************************************************************************)
HOST == "127.0.0.1"
PORT == 3000
STARTUP_MESSAGE == "Dev server: http://localhost:3000 (no-cache)"
CACHE_CONTROL == [k |-> "Cache-Control", v |-> "no-cache, no-store, must-revalidate"]
PRAGMA == [k |-> "Pragma", v |-> "no-cache"]
EXPIRES == [k |-> "Expires", v |-> "0"]
\* BaseHTTPRequestHandler.protocol_version and default_request_version,
\* which NoCacheHandler inherits unchanged
protocol_version == "HTTP/1.0"
default_request_version == "HTTP/0.9"
\* the blank line that ends a header block
BLANK == [k |-> "", v |-> ""]

(***************************************************************************)
(* The document root: the working directory of the process.                *)
(* A path is a sequence of names.  The root and "sub" are directories;     *)
(* "a.txt" and "sub/index.html" are regular files that an editor creates,  *)
(* rewrites, removes and chmods while the server runs.                     *)
(***************************************************************************)
Bytes == {0, 1}
Contents == UNION {[1..n -> Bytes] : n \in 0..MaxLen}
Times == 0..MaxTime
ROOT == <<>>
SUB == <<"sub">>
Dirs == {ROOT, SUB}
Files == {<<"a.txt">>, <<"sub", "index.html">>}
INDEX_NAMES == <<"index.html", "index.htm">>
NoFile == [exists |-> FALSE, readable |-> TRUE, data |-> <<>>, mtime |-> 0]
FileRec == {NoFile} \cup [exists : {TRUE}, readable : BOOLEAN, data : Contents, mtime : Times]

VARIABLES
    pc,          \* position of the main block: "main", "construct", "print", "serve", "exit"
    sock,        \* the listening socket: its state, "none", "listening", "failed" (the bind
                 \* raised OSError) or "closed" (the process ended), and its address
    bindCalls,   \* number of times the listening socket was bound (successfully or not)
    lineBuffered,\* sys.stdout is line buffered (a terminal) or unbuffered (python -u), not
                 \* block buffered (a file, a pipe)
    stdoutBuf,   \* lines print() left in sys.stdout's buffer
    stdout,      \* lines written to standard output
    exitCause,   \* "" while running, else "bind" (uncaught OSError), "SIGINT" or "SIGTERM"
    files,       \* the regular files under the document root
    listable,    \* directory -> whether os.listdir succeeds on it (it does on the root)
    conn,        \* "idle", or "done" right after a request was handled
    req,         \* the request read from the accepted connection
    h            \* the handler object after handling: what it wrote, what it set

vars == <<pc, sock, bindCalls, lineBuffered, stdoutBuf, stdout, exitCause, files, listable, conn, req, h>>

(***************************************************************************)
(* Requests.  The request line is split into words; `words` is their       *)
(* number, `version` the last word when there are three or more.           *)
(***************************************************************************)
Commands == {"GET", "HEAD", "POST"}
Versions == {"HTTP/1.0", "HTTP/1.1", "HTTP/2.0", "FOO/1.1"}
Path(segs, slash) == [segs |-> segs, slash |-> slash]
Paths == {Path(ROOT, TRUE), Path(<<"a.txt">>, FALSE), Path(<<"a.txt">>, TRUE),
          Path(SUB, FALSE), Path(SUB, TRUE), Path(<<"sub", "..", "a.txt">>, FALSE),
          Path(<<"missing">>, FALSE)}
NoIms == -1
Request(words, command, path, version, ims, long) ==
    [words |-> words, command |-> command, path |-> path, version |-> version,
     ims |-> ims, long |-> long]
NoRequest == Request(0, "", Path(ROOT, FALSE), "", NoIms, FALSE)
\* GET and HEAD requests with a well-formed HTTP/1.x request line, and HTTP/0.9
\* simple requests ("GET path"), of every path
ProperRequests ==
    {Request(3, "GET", p, "HTTP/1.0", i, FALSE) : p \in Paths, i \in {NoIms} \cup Times}
    \cup {Request(3, "HEAD", p, "HTTP/1.0", NoIms, FALSE) : p \in Paths}
    \cup {Request(3, "HEAD", Path(<<"a.txt">>, FALSE), "HTTP/1.0", i, FALSE) : i \in Times}
    \cup {Request(3, "GET", p, "HTTP/1.1", NoIms, FALSE) : p \in Paths}
    \cup {Request(2, "GET", p, "", NoIms, FALSE) : p \in Paths}
\* request lines that are empty, of one word, of four words, of a bad or
\* unsupported version, longer than 65536 bytes, or of a method the handler
\* has no do_ method for
OddRequests ==
    {Request(w, "GET", Path(<<"a.txt">>, FALSE), "HTTP/1.1", NoIms, FALSE) : w \in {0, 1, 4}}
    \cup {Request(3, "GET", Path(<<"a.txt">>, FALSE), v, NoIms, FALSE) : v \in {"HTTP/2.0", "FOO/1.1"}}
    \cup {Request(4, "GET", Path(<<"a.txt">>, FALSE), "FOO/1.1", NoIms, FALSE)}
    \cup {Request(3, "GET", Path(<<"a.txt">>, FALSE), "HTTP/1.1", NoIms, TRUE)}
    \cup {Request(2, "HEAD", Path(<<"a.txt">>, FALSE), "", NoIms, FALSE)}
    \cup {Request(3, "POST", p, "HTTP/1.1", NoIms, FALSE) :
            p \in {Path(<<"a.txt">>, FALSE), Path(<<"missing">>, FALSE)}}
Requests == ProperRequests \cup OddRequests

(***************************************************************************)
(* The handler object.                                                     *)
(***************************************************************************)
\* a body is the file's bytes ("file"), a generated listing of the directory's
\* entries ("listing") or the HTML error page of a status code ("error")
NoBody == [kind |-> "none", data |-> <<>>, entries |-> {}, complete |-> TRUE]
NewHandler ==
    [request_version |-> "", command |-> "None", path |-> Path(ROOT, FALSE), ims |-> NoIms,
     close_connection |-> TRUE,
     buf |-> <<>>,       \* _headers_buffer
     wfile |-> <<>>,     \* the header lines written to the socket
     body |-> NoBody,    \* the body written to the socket after them
     code |-> 0,         \* the status code given to send_response (0: none)
     message |-> "",     \* the message given to send_error ("": none)
     raised |-> FALSE]   \* an exception left handle_one_request

(***************************************************************************)
(* BaseHTTPRequestHandler: the header buffer.                              *)
(***************************************************************************)
send_response_only(hd, code) ==
    IF hd.request_version # "HTTP/0.9"
    THEN [hd EXCEPT !.buf = Append(@, [k |-> protocol_version, v |-> ToString(code)])]
    ELSE hd

send_header(hd, keyword, value) ==
    LET h1 == IF hd.request_version # "HTTP/0.9"
              THEN [hd EXCEPT !.buf = Append(@, [k |-> keyword, v |-> value])]
              ELSE hd
    IN  IF keyword = "Connection" /\ value = "close"
        THEN [h1 EXCEPT !.close_connection = TRUE]
        ELSE h1

flush_headers(hd) == [hd EXCEPT !.wfile = @ \o hd.buf, !.buf = <<>>]

base_end_headers(hd) ==
    IF hd.request_version # "HTTP/0.9"
    THEN flush_headers([hd EXCEPT !.buf = Append(@, BLANK)])
    ELSE hd

\* end_headers with the bug of not adding the three headers
end_headers_without_injection(hd) == base_end_headers(hd)

(***************************************************************************)
(* NoCacheHandler.end_headers: the override of serve.py.                   *)
(***************************************************************************)
end_headers(hd) ==
    LET h1 == send_header(hd, CACHE_CONTROL.k, CACHE_CONTROL.v)
        h2 == send_header(h1, PRAGMA.k, PRAGMA.v)
        h3 == send_header(h2, EXPIRES.k, EXPIRES.v)
    IN  base_end_headers(h3)

(***************************************************************************)
(* BaseHTTPRequestHandler: responses.                                      *)
(***************************************************************************)
send_response(hd, code) ==
    LET h0 == [hd EXCEPT !.code = code]          \* log_request(code)
        h1 == send_response_only(h0, code)
        h2 == send_header(h1, "Server", "SimpleHTTP/0.6")
    IN  send_header(h2, "Date", "now")

ErrorPage(code) == [kind |-> "error", data |-> <<code>>, entries |-> {}, complete |-> TRUE]

send_error(hd, code, message) ==
    LET h0 == [hd EXCEPT !.message = message]    \* log_error
        h1 == send_response(h0, code)
        h2 == send_header(h1, "Connection", "close")
        hasBody == code >= 200 /\ code \notin {204, 205, 304}
        h3 == IF hasBody
              THEN send_header(send_header(h2, "Content-Type", "text/html;charset=utf-8"),
                               "Content-Length", "len(error page)")
              ELSE h2
        h4 == end_headers(h3)
    IN  IF hd.command # "HEAD" /\ hasBody
        THEN [h4 EXCEPT !.body = ErrorPage(code)]
        ELSE h4

(***************************************************************************)
(* BaseHTTPRequestHandler.parse_request.  The result's `ok` field is the   *)
(* return value.                                                           *)
(***************************************************************************)
\* the version's <<major, minor>>, or <<>> where the code raises ValueError
VersionNumber(version) ==
    CASE version = "HTTP/1.0" -> <<1, 0>>
      [] version = "HTTP/1.1" -> <<1, 1>>
      [] version = "HTTP/2.0" -> <<2, 0>>
      [] OTHER -> <<>>

Returned(hd, ok) == [hd |-> hd, ok |-> ok]

parse_request(hd, r) ==
    LET h0 == [hd EXCEPT !.command = "None", !.request_version = default_request_version,
                         !.close_connection = TRUE]
        vn == VersionNumber(r.version)
        \* protocol_version >= "HTTP/1.1" is false: the connection never stays open
        h1 == IF r.words >= 3 THEN [h0 EXCEPT !.request_version = r.version] ELSE h0
    IN  IF r.words = 0 THEN Returned(h0, FALSE)
        ELSE IF r.words >= 3 /\ vn = <<>>
        THEN Returned(send_error(h0, 400, "Bad request version"), FALSE)
        ELSE IF r.words >= 3 /\ vn[1] >= 2
        THEN Returned(send_error(h0, 505, "Invalid HTTP version"), FALSE)
        ELSE IF ~(2 <= r.words /\ r.words <= 3)
        THEN Returned(send_error(h1, 400, "Bad request syntax"), FALSE)
        ELSE IF r.words = 2 /\ r.command # "GET"
        THEN Returned(send_error(h1, 400, "Bad HTTP/0.9 request type"), FALSE)
        ELSE Returned([h1 EXCEPT !.command = r.command, !.path = r.path, !.ims = r.ims], TRUE)

(***************************************************************************)
(* The file system calls the handler makes.                                *)
(***************************************************************************)
isdir(segs) == segs \in Dirs
isfile(segs) == segs \in Files /\ files[segs].exists
\* open(path, 'rb') succeeds; otherwise it raises OSError
CanOpen(segs) == isfile(segs) /\ files[segs].readable
\* open_file with the bug of opening a fixed file whatever the path
open_file_ignoring_path(segs) == files[<<"a.txt">>]
\* the open file: its bytes and its os.fstat
open_file(segs) == files[segs]
\* oserror_status with the bug of reporting a server error
oserror_status_500(hd) == 500
\* the status sent when open or os.listdir raises OSError: NOT_FOUND
oserror_status(hd) == 404
IsChild(segs, dir) == Len(segs) = Len(dir) + 1 /\ SubSeq(segs, 1, Len(dir)) = dir
listdir(dir) ==
    {segs[Len(segs)] : segs \in {x \in Dirs \cup Files : IsChild(x, dir) /\ (isdir(x) \/ isfile(x))}}

(***************************************************************************)
(* SimpleHTTPRequestHandler.                                               *)
(***************************************************************************)
\* posixpath.normpath on the components: "." is dropped, ".." drops the
\* component before it
RECURSIVE Normpath(_, _)
Normpath(segs, acc) ==
    IF segs = <<>> THEN acc
    ELSE IF Head(segs) = "." THEN Normpath(Tail(segs), acc)
    ELSE IF Head(segs) = ".."
    THEN Normpath(Tail(segs), IF acc = <<>> THEN acc ELSE SubSeq(acc, 1, Len(acc) - 1))
    ELSE Normpath(Tail(segs), Append(acc, Head(segs)))

translate_path(path) == Path(Normpath(path.segs, <<>>), path.slash)

guess_type(segs) ==
    LET name == IF segs = <<>> THEN "" ELSE segs[Len(segs)]
    IN  CASE name = "a.txt" -> "text/plain"
          [] name \in {"index.html", "index.htm"} -> "text/html"
          [] OTHER -> "application/octet-stream"

\* the first index file of the directory, <<>> when it has none
RECURSIVE FindIndex(_, _)
FindIndex(dir, names) ==
    IF names = <<>> THEN <<>>
    ELSE IF isfile(Append(dir, Head(names))) THEN Append(dir, Head(names))
    ELSE FindIndex(dir, Tail(names))

\* what send_head and list_directory return: the handler and the open file
\* object (NoBody for None)
Opened(hd, f) == [hd |-> hd, f |-> f]

list_directory(hd, dir) ==
    IF ~listable[dir]
    THEN Opened(send_error(hd, oserror_status(hd), "No permission to list directory"), NoBody)
    ELSE LET f == [kind |-> "listing", data |-> <<>>, entries |-> listdir(dir), complete |-> TRUE]
             h1 == send_response(hd, 200)
             h2 == send_header(h1, "Content-type", "text/html; charset=utf-8")
             h3 == send_header(h2, "Content-Length", "len(listing)")
         IN  Opened(end_headers(h3), f)

\* the part of send_head after the directory branch: `path` is a file name
send_file_head(hd, path) ==
    IF path.slash
    THEN Opened(send_error(hd, 404, "File not found"), NoBody)
    ELSE IF ~CanOpen(path.segs)
    THEN Opened(send_error(hd, oserror_status(hd), "File not found"), NoBody)
    ELSE LET fs == open_file(path.segs)
         IN  IF hd.ims # NoIms /\ fs.mtime <= hd.ims
             THEN Opened(end_headers(send_response(hd, 304)), NoBody)
             ELSE LET h1 == send_response(hd, 200)
                      h2 == send_header(h1, "Content-type", guess_type(path.segs))
                      h3 == send_header(h2, "Content-Length", ToString(Len(fs.data)))
                      h4 == send_header(h3, "Last-Modified", ToString(fs.mtime))
                  IN  Opened(end_headers(h4),
                             [kind |-> "file", data |-> fs.data, entries |-> {}, complete |-> TRUE])

send_head(hd) ==
    LET path == translate_path(hd.path)
    IN  IF isdir(path.segs)
        THEN IF ~hd.path.slash
             THEN LET h1 == send_response(hd, 301)
                      h2 == send_header(h1, "Location", "path/")
                      h3 == send_header(h2, "Content-Length", "0")
                  IN  Opened(end_headers(h3), NoBody)
             ELSE LET index == FindIndex(path.segs, INDEX_NAMES)
                  IN  IF index = <<>>
                      THEN list_directory(hd, path.segs)
                      ELSE send_file_head(hd, Path(index, FALSE))
        ELSE send_file_head(hd, path)

\* copyfile with the bug of stopping one byte short
copyfile_dropping_last_byte(hd, f, io) ==
    [hd EXCEPT !.body = [f EXCEPT !.data = IF f.data = <<>> THEN <<>>
                                           ELSE SubSeq(f.data, 1, Len(f.data) - 1)]]

\* shutil.copyfileobj(source, outputfile).  io < 0: it completes.  io >= 0: a
\* read or a write raises after at most io bytes went out.
copyfile(hd, f, io) ==
    IF io < 0
    THEN [hd EXCEPT !.body = f]
    ELSE LET n == IF io < Len(f.data) THEN io ELSE Len(f.data)
         IN  [hd EXCEPT !.body = [f EXCEPT !.data = SubSeq(f.data, 1, n), !.entries = {},
                                           !.complete = FALSE],
                        !.raised = TRUE]

do_GET(hd, io) ==
    LET o == send_head(hd)
    IN  IF o.f # NoBody THEN copyfile(o.hd, o.f, io) ELSE o.hd

do_HEAD(hd) == send_head(hd).hd

(***************************************************************************)
(* BaseHTTPRequestHandler.handle_one_request, which handle() runs once     *)
(* per connection (close_connection stays true).                           *)
(***************************************************************************)
handle_one_request(r, io) ==
    IF r.long
    THEN send_error([NewHandler EXCEPT !.command = ""], 414, "Request-URI Too Long")
    ELSE LET p == parse_request(NewHandler, r)
         IN  IF ~p.ok THEN p.hd
             ELSE IF p.hd.command = "GET" THEN do_GET(p.hd, io)
             ELSE IF p.hd.command = "HEAD" THEN do_HEAD(p.hd)
             ELSE send_error(p.hd, 501, "Unsupported method")

(***************************************************************************)
(* The main block and the server loop.                                     *)
(***************************************************************************)
ADDRESS == <<HOST, PORT>>
Socket(state, addr) == [state |-> state, addr |-> addr]

Init ==
    /\ pc = "main"
    /\ sock = Socket("none", <<>>)
    /\ bindCalls = 0
    /\ lineBuffered \in BOOLEAN
    /\ stdoutBuf = <<>>
    /\ stdout = <<>>
    /\ exitCause = ""
    /\ files \in [Files -> FileRec]
    /\ listable \in {l \in [Dirs -> BOOLEAN] : l[ROOT]}
    /\ conn = "idle"
    /\ req = NoRequest
    /\ h = NewHandler

\* if __name__ == '__main__':
Main ==
    /\ pc = "main"
    /\ pc' = "construct"
    /\ UNCHANGED <<sock, bindCalls, lineBuffered, stdoutBuf, stdout, exitCause, files, listable, conn, req, h>>

\* OnBindError with the bug of trying the bind again
OnBindErrorRetry == [pc |-> "construct", exitCause |-> ""]

\* where the main block goes when HTTPServer(...) raises OSError from
\* server_bind or server_activate: nothing catches it, the interpreter exits
OnBindError == [pc |-> "exit", exitCause |-> "bind"]

\* server = http.server.HTTPServer(('127.0.0.1', 3000), NoCacheHandler)
\* TCPServer.__init__ binds and listens; bound is whether the system lets it
Construct ==
    /\ pc = "construct"
    /\ \E bound \in BOOLEAN :
        /\ bindCalls' = bindCalls + 1
        /\ sock' = IF bound THEN Socket("listening", ADDRESS) ELSE Socket("failed", <<>>)
        /\ pc' = IF bound THEN "print" ELSE OnBindError.pc
        /\ exitCause' = IF bound THEN exitCause ELSE OnBindError.exitCause
    /\ UNCHANGED <<lineBuffered, stdoutBuf, stdout, files, listable, conn, req, h>>

\* print('Dev server: http://localhost:3000 (no-cache)')
\* sys.stdout writes the line through when it is line buffered or unbuffered,
\* and keeps it in its buffer otherwise; nothing flushes it
PrintStartup ==
    /\ pc = "print"
    /\ stdout' = IF lineBuffered THEN Append(stdout, STARTUP_MESSAGE) ELSE stdout
    /\ stdoutBuf' = IF lineBuffered THEN stdoutBuf ELSE Append(stdoutBuf, STARTUP_MESSAGE)
    /\ pc' = "serve"
    /\ UNCHANGED <<sock, bindCalls, lineBuffered, exitCause, files, listable, conn, req, h>>

\* AfterHandler with the bug of letting the handler's exception end the loop
AfterHandlerPropagating(hd) == IF hd.raised THEN "exit" ELSE "serve"

\* BaseServer._handle_request_noblock: an Exception that leaves the handler is
\* caught (handle_error prints the traceback) and the loop goes on
AfterHandler(hd) == "serve"

\* server.serve_forever(): a client connects and sends a request; the loop
\* accepts the connection and runs the handler on it.
HandleRequest ==
    /\ pc = "serve"
    /\ sock.state = "listening"
    /\ conn = "idle"
    /\ \E r \in Requests, io \in -1..MaxLen :
        /\ req' = r
        /\ h' = handle_one_request(r, io)
        /\ pc' = AfterHandler(handle_one_request(r, io))
    /\ conn' = "done"
    /\ UNCHANGED <<sock, bindCalls, lineBuffered, stdoutBuf, stdout, exitCause, files, listable>>

\* shutdown_request: the connection is closed, the loop goes back to select
FinishRequest ==
    /\ pc = "serve"
    /\ conn = "done"
    /\ conn' = "idle"
    /\ req' = NoRequest
    /\ h' = NewHandler
    /\ UNCHANGED <<pc, sock, bindCalls, lineBuffered, stdoutBuf, stdout, exitCause, files, listable>>

\* an external signal ends the process.  SIGINT raises KeyboardInterrupt, which
\* nothing catches: the interpreter exits and flushes sys.stdout.  SIGTERM
\* kills the process: what sys.stdout buffered is lost.
Terminate ==
    /\ pc \in {"construct", "print", "serve"}
    /\ pc' = "exit"
    /\ \E sig \in {"SIGINT", "SIGTERM"} :
        /\ exitCause' = sig
        /\ stdout' = IF sig = "SIGINT" THEN stdout \o stdoutBuf ELSE stdout
    /\ stdoutBuf' = <<>>
    /\ sock' = IF sock.state = "listening" THEN Socket("closed", <<>>) ELSE sock
    /\ conn' = "idle"
    /\ req' = NoRequest
    /\ h' = NewHandler
    /\ UNCHANGED <<bindCalls, lineBuffered, files, listable>>

(***************************************************************************)
(* The developer edits the document root while the server runs.            *)
(***************************************************************************)
WriteFile ==
    /\ conn = "idle"
    /\ \E f \in Files, data \in Contents, t \in Times :
        /\ t >= files[f].mtime
        /\ files' = [files EXCEPT ![f] = [exists |-> TRUE, readable |-> @.readable,
                                          data |-> data, mtime |-> t]]
    /\ UNCHANGED <<pc, sock, bindCalls, lineBuffered, stdoutBuf, stdout, exitCause, listable, conn, req, h>>

RemoveFile ==
    /\ conn = "idle"
    /\ \E f \in Files :
        /\ files[f].exists
        /\ files' = [files EXCEPT ![f] = NoFile]
    /\ UNCHANGED <<pc, sock, bindCalls, lineBuffered, stdoutBuf, stdout, exitCause, listable, conn, req, h>>

ChmodFile ==
    /\ conn = "idle"
    /\ \E f \in Files :
        /\ files[f].exists
        /\ files' = [files EXCEPT ![f].readable = ~@]
    /\ UNCHANGED <<pc, sock, bindCalls, lineBuffered, stdoutBuf, stdout, exitCause, listable, conn, req, h>>

ChmodDir ==
    /\ conn = "idle"
    /\ \E d \in Dirs \ {ROOT} : listable' = [listable EXCEPT ![d] = ~@]
    /\ UNCHANGED <<pc, sock, bindCalls, lineBuffered, stdoutBuf, stdout, exitCause, files, conn, req, h>>

Next ==
    \/ Main
    \/ Construct
    \/ PrintStartup
    \/ HandleRequest
    \/ FinishRequest
    \/ Terminate
    \/ WriteFile
    \/ RemoveFile
    \/ ChmodFile
    \/ ChmodDir

Spec == Init /\ [][Next]_vars

(***************************************************************************)
(* What a handled request was, and what went to the client.                *)
(***************************************************************************)
Handled == conn = "done"
\* the request line was parsed and a do_GET or do_HEAD ran: the path was resolved
Resolved == Handled /\ h.command \in {"GET", "HEAD"}
\* the file system path of the request
Target == translate_path(req.path)
\* the regular file the resolution ends at, <<>> when it ends at none
TargetFile ==
    IF isdir(Target.segs)
    THEN IF req.path.slash THEN FindIndex(Target.segs, INDEX_NAMES) ELSE <<>>
    ELSE IF ~Target.slash /\ isfile(Target.segs) THEN Target.segs ELSE <<>>
\* the If-Modified-Since header is at or after the file's modification time
NotModifiedSince(f) == req.ims # NoIms /\ files[f].mtime <= req.ims
\* something went to the client
Answered == Handled /\ (h.wfile # <<>> \/ h.body # NoBody)
Sent(header) == \E i \in DOMAIN h.wfile : h.wfile[i] = header
Count(header) == Cardinality({i \in DOMAIN h.wfile : h.wfile[i] = header})
NoCacheSent == Sent(CACHE_CONTROL) /\ Sent(PRAGMA) /\ Sent(EXPIRES)
\* the response starts with the status line of `code`
Status(code) ==
    /\ h.wfile # <<>>
    /\ h.wfile[1] = [k |-> protocol_version, v |-> ToString(code)]
FileBody(f) == [kind |-> "file", data |-> files[f].data, entries |-> {}, complete |-> TRUE]
\* the request line carried an HTTP/1.x version
HttpOne == h.request_version \in {"HTTP/1.0", "HTTP/1.1"}
Listing(dir) == [kind |-> "listing", data |-> <<>>, entries |-> listdir(dir), complete |-> TRUE]
IsPrefix(s, t) == Len(s) <= Len(t) /\ s = SubSeq(t, 1, Len(s))
\* the resolution ends at a file that open() refuses
OpenDenied == TargetFile # <<>> /\ ~CanOpen(TargetFile)
\* the resolution ends at a directory without index that os.listdir refuses
ListDenied == isdir(Target.segs) /\ req.path.slash /\ TargetFile = <<>> /\ ~listable[Target.segs]
\* number of status lines sent
StatusLines == Cardinality({i \in DOMAIN h.wfile : h.wfile[i].k = protocol_version})

(***************************************************************************)
(* C1.  Every response the server sends carries the three no-cache         *)
(* headers with their exact values.                                        *)
(* The code breaks it: a response to a request line whose version cannot   *)
(* be parsed, or that has no version (HTTP/0.9), is the bare body.         *)
(***************************************************************************)
C1_HeaderUniversality == Answered => NoCacheSent

(***************************************************************************)
(* C3.  A GET or HEAD request whose path resolves to no file or directory, *)
(* or to a file that cannot be opened, gets a 404 response that carries    *)
(* the three no-cache headers.                                             *)
(* The code breaks it for "GET /missing" without a version: the 404 page   *)
(* goes out with no status line and no headers (C1).                       *)
(***************************************************************************)
C3_NotFound ==
    (Resolved /\ ~isdir(Target.segs) /\ ~CanOpen(Target.segs))
        => (Status(404) /\ NoCacheSent)

(***************************************************************************)
(* C10.  In every response the header block is the status line and the     *)
(* base handler's headers, unaltered, then Cache-Control, Pragma and       *)
(* Expires, each exactly once and in this order, then the blank line.      *)
(* The code breaks it where the response has no header block at all (C1).  *)
(***************************************************************************)
C10_InjectionOrder ==
    Answered =>
        LET n == Len(h.wfile)
        IN  /\ n >= 7
            /\ h.wfile[1].k = protocol_version
            /\ h.wfile[2].k = "Server"
            /\ h.wfile[3].k = "Date"
            /\ SubSeq(h.wfile, n - 3, n) = <<CACHE_CONTROL, PRAGMA, EXPIRES, BLANK>>
            /\ Count(CACHE_CONTROL) = 1 /\ Count(PRAGMA) = 1 /\ Count(EXPIRES) = 1
            /\ Count(BLANK) = 1
            /\ h.buf = <<>>

(***************************************************************************)
(* C2 as stated.  A GET request for the path of an existing regular file   *)
(* returns status 200 and a body identical to the file's contents.         *)
(***************************************************************************)
C2_ContentFidelity_AsStated ==
    (Resolved /\ h.command = "GET" /\ ~isdir(Target.segs) /\ ~Target.slash /\ isfile(Target.segs))
        => (Status(200) /\ h.body = FileBody(Target.segs))

(***************************************************************************)
(* C2 amended.  A GET request for the path of an existing regular file     *)
(* that can be opened, with no If-Modified-Since header at or after the    *)
(* file's modification time, is answered 200 with the file's contents as   *)
(* body: the status line is sent when the request line has an HTTP/1.x     *)
(* version (an HTTP/0.9 request gets the body alone), and the body is the  *)
(* whole content unless an I/O error cuts the copy short, which leaves a   *)
(* prefix of it.                                                           *)
(***************************************************************************)
C2_ContentFidelity ==
    (/\ Resolved /\ h.command = "GET"
     /\ ~isdir(Target.segs) /\ ~Target.slash /\ CanOpen(Target.segs)
     /\ ~NotModifiedSince(Target.segs))
        => /\ h.code = 200
           /\ HttpOne => Status(200)
           /\ ~HttpOne => h.wfile = <<>>
           /\ ~h.raised => h.body = FileBody(Target.segs)
           /\ h.raised => (h.body.kind = "file" /\ IsPrefix(h.body.data, files[Target.segs].data))
C2_Witness ==
    /\ Handled /\ req.command = "GET" /\ req.version = "HTTP/1.0"
    /\ req.path = Path(<<"a.txt">>, FALSE)
    /\ files[<<"a.txt">>].data # <<>>
    /\ Status(200)
    /\ h.body = FileBody(<<"a.txt">>)

C6_Startup ==
    /\ Len(stdout) <= 1
    /\ pc \in {"main", "construct", "print"} => (stdout = <<>> /\ ~Handled)
    /\ pc = "print" => (sock = Socket("listening", <<"127.0.0.1", 3000>>) /\ ENABLED PrintStartup)
    /\ pc = "serve" =>
         (stdout = <<"Dev server: http://localhost:3000 (no-cache)">>
          /\ sock = Socket("listening", <<"127.0.0.1", 3000>>))
    /\ Handled => (pc = "serve" /\ Len(stdout) = 1)

(***************************************************************************)
(* C7.  When the bind fails the process ends at once with the uncaught     *)
(* error: the bind is tried once, no other address is bound, nothing is    *)
(* printed and the serve loop is never entered.                            *)
(***************************************************************************)
C7_BindFailureFatal ==
    /\ bindCalls <= 1
    /\ sock.addr \in {<<>>, <<"127.0.0.1", 3000>>}
    /\ sock.state = "failed" =>
         /\ pc = "exit" /\ exitCause = "bind"
         /\ bindCalls = 1
         /\ stdout = <<>> /\ stdoutBuf = <<>> /\ ~Handled
         /\ ~ENABLED Construct /\ ~ENABLED PrintStartup /\ ~ENABLED HandleRequest
C7_Witness == sock.state = "failed" /\ pc = "exit" /\ bindCalls = 1

(***************************************************************************)
(* C8.  Whatever goes wrong in one request (not found, malformed request   *)
(* line, unsupported method, a read error that raises), the process stays  *)
(* in the serve loop with its socket listening and goes on to the next     *)
(* request; the process ends only on a bind failure or an external signal. *)
(***************************************************************************)
C8_ErrorIsolation ==
    /\ Handled => (pc = "serve" /\ sock.state = "listening" /\ exitCause = ""
                   /\ ENABLED FinishRequest)
    /\ (pc = "serve" /\ ~Handled) => ENABLED HandleRequest
    /\ pc = "exit" <=> exitCause \in {"bind", "SIGINT", "SIGTERM"}
    /\ exitCause = "bind" => sock.state = "failed"
C8_Witness ==
    /\ Handled /\ pc = "serve" /\ h.raised
    /\ h.code = 200 /\ ~h.body.complete

(***************************************************************************)
(* C9 as stated.  A read error on an existing path (a file that cannot be  *)
(* opened, a directory that cannot be listed, an I/O error while the body  *)
(* is copied) is answered with a 5xx status.                               *)
(***************************************************************************)
C9_ReadErrors_AsStated ==
    (Resolved /\ (OpenDenied \/ ListDenied \/ h.raised))
        => (h.code >= 500 /\ h.code <= 599)

(***************************************************************************)
(* C9 amended.  A file that cannot be opened and a directory that cannot   *)
(* be listed are answered 404 (not a 5xx status), once, with the error     *)
(* page as body unless the request is a HEAD.  An I/O error while the body *)
(* is copied comes after the 200 status went out: the body stops short,    *)
(* no second status follows and the connection is closed.  Nothing is      *)
(* tried again.                                                            *)
(***************************************************************************)
C9_ReadErrors ==
    /\ (Resolved /\ (OpenDenied \/ ListDenied)) =>
         /\ h.code = 404 /\ ~h.raised
         /\ h.body = IF h.command = "HEAD" THEN NoBody ELSE ErrorPage(404)
         /\ HttpOne => (Status(404) /\ StatusLines = 1)
    /\ (Resolved /\ h.raised) =>
         /\ h.code = 200 /\ h.command = "GET"
         /\ ~h.body.complete
         /\ HttpOne => (Status(200) /\ StatusLines = 1)
         /\ h.close_connection
C9_Witness ==
    /\ Handled /\ req.command = "GET" /\ req.version = "HTTP/1.0"
    /\ req.path = Path(<<"a.txt">>, FALSE)
    /\ isfile(<<"a.txt">>) /\ ~files[<<"a.txt">>].readable
    /\ Status(404)

====
